---- MODULE Spec2Model ----
(***************************************************************************)
(* PingCheck: an EOS SDK agent that pings a list of hosts every round, and *)
(* applies one list of configuration commands when all hosts are down and  *)
(* another when a host answers again.                                      *)
(*                                                                         *)
(* Two versions of the agent are in the repository and both are modelled:  *)
(*   ver = "legacy"  src/legacy/PingCheck.py  (1.4.2: instance state,      *)
(*                   subprocess ping, VRF, drift compensation)             *)
(*   ver = "main"    src/PingCheck.py         (module globals, eAPI ping)  *)
(* A definition that models one file carries that file's suffix.           *)
(*                                                                         *)
(* One step of the model is one handler of the agent run to its end: the   *)
(* SDK event loop is single threaded and calls on_initialized once, then   *)
(* on_timeout each time the timer fires; the operator changes the daemon's *)
(* options in between (on_agent_option).                                   *)
(***************************************************************************)
EXTENDS Integers, Sequences, FiniteSets, TLC

\* ------------------------------------------------------------------ bounds

\* HOLDUP and HOLDDOWN are configured with values 0..MaxHold
MaxHold == 2
\* the longest a round takes, in seconds: more than either default interval
MaxRunTime == 6

\* ------------------------------------------------- program constants

\* src/legacy/PingCheck.py __init__ defaults
HOLDDOWN_legacy == 0
HOLDUP_legacy == 0
\* src/PingCheck.py module globals
HOLDDOWN_main == 1
HOLDUP_main == 1
\* check_vars: "Can only be 0-3600"
PINGTIMEOUT_MAX == 3600
\* the default check interval in seconds, of both versions
CHECKINTERVAL_legacy == 5
CHECKINTERVAL_main == 5

\* ------------------------------------------------------------- values

Versions == {"legacy", "main"}

\* addresses the operator lists in the IPv4 option; Bogus is not an address
\* (socket.inet_aton refuses it)
Hosts == {"10.1.1.1", "10.1.2.1"}
Bogus == "10.1.1.300"

\* An option that is not configured reads as the empty string, which Python
\* takes as false.
Unset == ""
IsSet(v) == v # Unset

\* The integers that the option strings of this model spell.
Numbers == {-1, 5, PINGTIMEOUT_MAX, 4000} \cup (0..(MaxHold + 1))

\* Python's int() on an option string: defined on the strings that spell an
\* integer, and a ValueError on any other string.
Numerals == {ToString(n) : n \in Numbers}
IntOf == [s \in Numerals |-> CHOOSE n \in Numbers : ToString(n) = s]
IsNumeric(s) == s \in Numerals
int(s) == IntOf[s]

\* ---------------------------------------------------------- Python lists

\* x in list
InList(x, list) == \E i \in 1..Len(list) : list[i] = x

\* list.remove(x): drops the first occurrence of x (x is in the list at every
\* call the agent makes)
Remove(list, x) ==
  LET i == CHOOSE k \in 1..Len(list) :
             list[k] = x /\ \A j \in 1..(k - 1) : list[j] # x
  IN  SubSeq(list, 1, i - 1) \o SubSeq(list, i + 1, Len(list))

ToSet(list) == {list[i] : i \in 1..Len(list)}

\* ------------------------------------------------------ the environment

(***************************************************************************)
(* What a round finds outside the agent.  The options that only one round  *)
(* reads (CONF_FAIL, CONF_RECOVER, PINGTIMEOUT, SOURCE, VRF) are part of   *)
(* it: the operator may set them to anything between two rounds.  The      *)
(* options whose values successive rounds relate (IPv4, HOLDDOWN, HOLDUP)  *)
(* are kept in the variable opt.                                           *)
(*   fail,        the files at the paths CONF_FAIL and CONF_RECOVER: isfile *)
(*   recover      and the lines (readlines(); an empty file has no line);  *)
(*                readable is whether open() succeeds when change_config   *)
(*                reads the file, later in the round                       *)
(*   primaryIp    the address "show ip interface <SOURCE>" reports, "" if  *)
(*                the command fails or reports none                        *)
(*   vrfExists    VrfMgr.exists(VRF)                                       *)
(*   pingStarts   whether subprocess.Popen can start ping                  *)
(*   applies      what EapiMgr.run_config_cmds does with a batch           *)
(*   runTime      the seconds from the start of the round (startTime) to   *)
(*                the point where on_timeout reads the clock again         *)
(***************************************************************************)

\* A line of a file as readlines() returns it: text between surrounding
\* white space (lead, and trail with the newline).
Line(lead, text, trail) == [lead |-> lead, text |-> text, trail |-> trail]
\* str.strip()
strip(x) == x.text

FailPath == "/mnt/flash/failed.conf"
RecoverPath == "/mnt/flash/recover.conf"

FailLines ==
  << Line("", "enable", "\n"),
     Line("", "router bgp 65001", "\n"),
     Line("   ", "neighbor 10.1.1.1 shutdown", "\n") >>
RecoverLines ==
  << Line("", "router bgp 65001", "\n"),
     Line("   ", "no neighbor 10.1.1.1 shutdown", " \n") >>

File(isfile, lines, readable) ==
  [isfile |-> isfile, lines |-> lines, readable |-> readable]

\* everything in order: both files present, nothing optional configured
EnvOK ==
  [ CONF_FAIL    |-> FailPath,
    CONF_RECOVER |-> RecoverPath,
    fail         |-> File(TRUE, FailLines, TRUE),
    recover      |-> File(TRUE, RecoverLines, TRUE),
    PINGTIMEOUT  |-> Unset,
    SOURCE       |-> Unset,
    primaryIp    |-> "",
    VRF          |-> Unset,
    vrfExists    |-> FALSE,
    pingStarts   |-> TRUE,
    applies      |-> "success",
    CHECKINTERVAL |-> Unset,
    runTime      |-> 0 ]

\* EapiMgr.run_config_cmds: the commands are applied, or the response reports
\* a failure, or the call raises
ApplyOutcomes == {"success", "failure", "raises"}

\* configurations with nothing missing
EnvsComplete ==
  { EnvOK,
    [EnvOK EXCEPT !.applies = "failure"],
    [EnvOK EXCEPT !.applies = "raises"],
    [EnvOK EXCEPT !.PINGTIMEOUT = ToString(PINGTIMEOUT_MAX)],
    [EnvOK EXCEPT !.SOURCE = "et1", !.primaryIp = "192.0.2.1"],
    [EnvOK EXCEPT !.VRF = "mgmt", !.vrfExists = TRUE] }

\* configurations with one thing missing or out of range
EnvsDeficient ==
  { [EnvOK EXCEPT !.CONF_FAIL = Unset],
    [EnvOK EXCEPT !.fail = File(TRUE, <<>>, TRUE)],
    [EnvOK EXCEPT !.recover = File(FALSE, <<>>, FALSE)],
    [EnvOK EXCEPT !.PINGTIMEOUT = "4000"],
    [EnvOK EXCEPT !.PINGTIMEOUT = "-1"],
    [EnvOK EXCEPT !.SOURCE = "et9", !.primaryIp = ""],
    [EnvOK EXCEPT !.VRF = "blue", !.vrfExists = FALSE] }

\* The environments in which every collaborator keeps its contract: the
\* action files stay readable during the round and ping can be started.
Envs == EnvsComplete \cup EnvsDeficient

\* ------------------------------------------------------------ check_vars

\* self.SOURCEINTFADDR before any interface was resolved: None in
\* src/legacy/PingCheck.py; in src/PingCheck.py the global is not defined
\* until check_interface first assigns it.
None == "None"
Undefined == "<undefined>"
Truthy(v) == v \notin {Unset, None}

\* socket.inet_aton(ip) succeeds
inet_aton_ok(ip) == ip \in Hosts

\* check_interface: the interface's primary address, or FALSE; the address is
\* also stored in SOURCEINTFADDR.  The result is [ret, SOURCEINTFADDR].
check_interface(env, sia) ==
  LET ipaddr == env.primaryIp
  IN  IF ipaddr # ""
      THEN [ret |-> TRUE, SOURCEINTFADDR |-> ipaddr]
      ELSE [ret |-> FALSE, SOURCEINTFADDR |-> sia]

\* os.path.getsize(TESTFILE) == 0
IsBlank(file) == Len(file.lines) = 0

\* the checks both versions make of the two action files (legacy 336-359,
\* main 303-326): TRUE when they pass
conf_files_ok(env) ==
  /\ IsSet(env.CONF_FAIL)
  /\ IsSet(env.CONF_RECOVER)
  /\ env.fail.isfile
  /\ ~IsBlank(env.fail)
  /\ env.recover.isfile
  /\ ~IsBlank(env.recover)

\* src/legacy/PingCheck.py check_vars: [ret, SOURCEINTFADDR]
check_vars_legacy(IPv4, env, sia) ==
  LET src == IF IsSet(env.SOURCE) THEN check_interface(env, sia)
             ELSE [ret |-> TRUE, SOURCEINTFADDR |-> sia]
  IN  IF IPv4 = <<>>
        THEN [ret |-> 0, SOURCEINTFADDR |-> sia]
      ELSE IF \E i \in 1..Len(IPv4) : ~inet_aton_ok(IPv4[i])
        THEN [ret |-> 0, SOURCEINTFADDR |-> sia]
      ELSE IF ~conf_files_ok(env)
        THEN [ret |-> 0, SOURCEINTFADDR |-> sia]
      ELSE IF IsSet(env.PINGTIMEOUT) /\ int(env.PINGTIMEOUT) > PINGTIMEOUT_MAX
        THEN [ret |-> 0, SOURCEINTFADDR |-> sia]
      ELSE IF ~src.ret
        THEN [ret |-> 0, SOURCEINTFADDR |-> src.SOURCEINTFADDR]
      ELSE IF IsSet(env.VRF) /\ ~env.vrfExists
        THEN [ret |-> 0, SOURCEINTFADDR |-> src.SOURCEINTFADDR]
      ELSE [ret |-> 1, SOURCEINTFADDR |-> src.SOURCEINTFADDR]

\* src/PingCheck.py check_vars: [ret, SOURCEINTFADDR].  The addresses are not
\* parsed, there is no VRF, and a PINGTIMEOUT over 3600 is logged only.
check_vars_main(IPv4, env, sia) ==
  LET src == IF IsSet(env.SOURCE) THEN check_interface(env, sia)
             ELSE [ret |-> TRUE, SOURCEINTFADDR |-> sia]
  IN  IF IPv4 = <<>>
        THEN [ret |-> 0, SOURCEINTFADDR |-> sia]
      ELSE IF ~conf_files_ok(env)
        THEN [ret |-> 0, SOURCEINTFADDR |-> sia]
      ELSE IF ~src.ret
        THEN [ret |-> 0, SOURCEINTFADDR |-> src.SOURCEINTFADDR]
      ELSE [ret |-> 1, SOURCEINTFADDR |-> src.SOURCEINTFADDR]

\* ------------------------------------------------- on_timeout: the hosts

\* Two variants of the turn, against which the properties of the lists are
\* tried: one leaves a host that stopped answering in GOODIPV4, the other
\* empties GOODIPV4 when a host does not answer.
host_result_keeps_good(GOOD, DEAD, host, pingstatus) ==
  IF pingstatus
  THEN [ GOODIPV4 |-> IF ~InList(host, GOOD) THEN Append(GOOD, host) ELSE GOOD,
         DEADIPV4 |-> IF InList(host, DEAD) THEN Remove(DEAD, host) ELSE DEAD,
         events   |-> IF InList(host, DEAD)
                      THEN << <<host, "is back up">> >> ELSE <<>> ]
  ELSE [ GOODIPV4 |-> GOOD,
         DEADIPV4 |-> IF ~InList(host, DEAD) THEN Append(DEAD, host) ELSE DEAD,
         events   |-> IF ~InList(host, DEAD)
                      THEN << <<host, "is down">> >> ELSE <<>> ]

host_result_clears_good(GOOD, DEAD, host, pingstatus) ==
  IF pingstatus
  THEN [ GOODIPV4 |-> IF ~InList(host, GOOD) THEN Append(GOOD, host) ELSE GOOD,
         DEADIPV4 |-> IF InList(host, DEAD) THEN Remove(DEAD, host) ELSE DEAD,
         events   |-> IF InList(host, DEAD)
                      THEN << <<host, "is back up">> >> ELSE <<>> ]
  ELSE [ GOODIPV4 |-> <<>>,
         DEADIPV4 |-> IF ~InList(host, DEAD) THEN Append(DEAD, host) ELSE DEAD,
         events   |-> IF ~InList(host, DEAD)
                      THEN << <<host, "is down">> >> ELSE <<>> ]

\* A variant that logs "is down" whenever the ping of a host fails.
host_result_logs_every_down(GOOD, DEAD, host, pingstatus) ==
  IF pingstatus
  THEN [ GOODIPV4 |-> IF ~InList(host, GOOD) THEN Append(GOOD, host) ELSE GOOD,
         DEADIPV4 |-> IF InList(host, DEAD) THEN Remove(DEAD, host) ELSE DEAD,
         events   |-> IF InList(host, DEAD)
                      THEN << <<host, "is back up">> >> ELSE <<>> ]
  ELSE [ GOODIPV4 |-> IF InList(host, GOOD) THEN Remove(GOOD, host) ELSE GOOD,
         DEADIPV4 |-> IF ~InList(host, DEAD) THEN Append(DEAD, host) ELSE DEAD,
         events   |-> << <<host, "is down">> >> ]

\* A variant of the turn that lists the host anew whether or not the list
\* it goes to holds it already.
host_result_lists_again(GOOD, DEAD, host, pingstatus) ==
  IF pingstatus
  THEN [ GOODIPV4 |-> Append(GOOD, host),
         DEADIPV4 |-> IF InList(host, DEAD) THEN Remove(DEAD, host) ELSE DEAD,
         events   |-> IF InList(host, DEAD)
                      THEN << <<host, "is back up">> >> ELSE <<>> ]
  ELSE [ GOODIPV4 |-> IF InList(host, GOOD) THEN Remove(GOOD, host) ELSE GOOD,
         DEADIPV4 |-> Append(DEAD, host),
         events   |-> IF ~InList(host, DEAD)
                      THEN << <<host, "is down">> >> ELSE <<>> ]

\* One turn of the loop over EachAddress, after pingDUT returned pingstatus
\* for host: the two lists, and the syslog messages of the turn.
host_result_legacy(GOOD, DEAD, host, pingstatus) ==
  IF pingstatus
  THEN [ GOODIPV4 |-> IF ~InList(host, GOOD) THEN Append(GOOD, host) ELSE GOOD,
         DEADIPV4 |-> IF InList(host, DEAD) THEN Remove(DEAD, host) ELSE DEAD,
         events   |-> IF InList(host, DEAD)
                      THEN << <<host, "is back up">> >> ELSE <<>> ]
  ELSE [ GOODIPV4 |-> IF InList(host, GOOD) THEN Remove(GOOD, host) ELSE GOOD,
         DEADIPV4 |-> IF ~InList(host, DEAD) THEN Append(DEAD, host) ELSE DEAD,
         events   |-> IF ~InList(host, DEAD)
                      THEN << <<host, "is down">> >> ELSE <<>> ]

\* the same turn in src/PingCheck.py
host_result_main(GOOD, DEAD, host, pingstatus) ==
  IF pingstatus
  THEN [ GOODIPV4 |-> IF ~InList(host, GOOD) THEN Append(GOOD, host) ELSE GOOD,
         DEADIPV4 |-> IF InList(host, DEAD) THEN Remove(DEAD, host) ELSE DEAD,
         events   |-> IF InList(host, DEAD)
                      THEN << <<host, "is back up">> >> ELSE <<>> ]
  ELSE [ GOODIPV4 |-> IF InList(host, GOOD) THEN Remove(GOOD, host) ELSE GOOD,
         DEADIPV4 |-> IF ~InList(host, DEAD) THEN Append(DEAD, host) ELSE DEAD,
         events   |-> IF ~InList(host, DEAD)
                      THEN << <<host, "is down">> >> ELSE <<>> ]

host_result(v, GOOD, DEAD, host, pingstatus) ==
  IF v = "legacy" THEN host_result_legacy(GOOD, DEAD, host, pingstatus)
  ELSE host_result_main(GOOD, DEAD, host, pingstatus)

\* A variant of the loop that stops at the first host that answers.
RECURSIVE ping_hosts_until_up(_, _, _, _, _, _)
ping_hosts_until_up(v, EachAddress, pings, source, i, acc) ==
  IF i > Len(EachAddress) THEN acc
  ELSE LET host == EachAddress[i]
           r == host_result(v, acc.GOODIPV4, acc.DEADIPV4, host, pings[i])
       IN  ping_hosts_until_up(v, EachAddress, pings, source,
             IF pings[i] THEN Len(EachAddress) + 1 ELSE i + 1,
             [ GOODIPV4 |-> r.GOODIPV4,
               DEADIPV4 |-> r.DEADIPV4,
               events   |-> acc.events \o r.events,
               probes   |-> Append(acc.probes, [host |-> host, source |-> source]) ])

\* The loop "for host in EachAddress", from its i-th turn on.  pings[i] is
\* what the ping of the i-th address comes to.  acc carries the two lists,
\* the messages and the probes made so far.
RECURSIVE ping_hosts(_, _, _, _, _, _)
ping_hosts(v, EachAddress, pings, source, i, acc) ==
  IF i > Len(EachAddress) THEN acc
  ELSE LET host == EachAddress[i]
           r == host_result(v, acc.GOODIPV4, acc.DEADIPV4, host, pings[i])
       IN  ping_hosts(v, EachAddress, pings, source, i + 1,
             [ GOODIPV4 |-> r.GOODIPV4,
               DEADIPV4 |-> r.DEADIPV4,
               events   |-> acc.events \o r.events,
               probes   |-> Append(acc.probes, [host |-> host, source |-> source]) ])

\* ------------------------------------------------- change_config

\* change_config(STATUS): reads the file of the new state, strips the lines,
\* drops a first line "enable" and hands the rest to run_config_cmds.
\*   raised     open() failed: the exception leaves change_config
\*   submitted  the batches handed to run_config_cmds (one or none)
\*   ret        the value returned (0 when run_config_cmds raised)
\* a variant that drops every line "enable", wherever it stands
change_config_drops_every_enable(STATUS, env) ==
  LET file == IF STATUS = "FAIL" THEN env.fail ELSE env.recover
      stripped == [i \in 1..Len(file.lines) |-> strip(file.lines[i])]
      configfile == SelectSeq(stripped, LAMBDA x : x # "enable")
  IN  IF ~file.readable \/ Len(file.lines) = 0
      THEN [raised |-> TRUE, submitted |-> <<>>, ret |-> 0]
      ELSE [raised |-> FALSE, submitted |-> <<configfile>>,
            ret |-> IF env.applies = "raises" THEN 0 ELSE 1]

change_config(STATUS, env) ==
  LET file == IF STATUS = "FAIL" THEN env.fail ELSE env.recover
      stripped == [i \in 1..Len(file.lines) |-> strip(file.lines[i])]
      configfile == IF stripped[1] = "enable" THEN Tail(stripped) ELSE stripped
  IN  IF ~file.readable \/ Len(file.lines) = 0
      THEN [raised |-> TRUE, submitted |-> <<>>, ret |-> 0]
      ELSE [raised |-> FALSE, submitted |-> <<configfile>>,
            ret |-> IF env.applies = "raises" THEN 0 ELSE 1]

\* ------------------------------------------------- on_timeout: the state

\* Two variants of the decision, against which the properties of the
\* transitions are tried: one asks only whether the threshold is reached, in
\* whatever state the round began; the other counts the round itself before
\* it compares with the threshold.
health_unguarded(STATUS, ITER, GOOD, HOLDDOWNLOCAL, HOLDUPLOCAL) ==
  IF Len(GOOD) > 0
  THEN IF ITER >= int(HOLDDOWNLOCAL)
       THEN [CURRENTSTATUS |-> 1, ITERATION |-> 0, call |-> "RECOVER"]
       ELSE [CURRENTSTATUS |-> STATUS, ITERATION |-> ITER + 1, call |-> "none"]
  ELSE IF ITER >= int(HOLDUPLOCAL)
       THEN [CURRENTSTATUS |-> 0, ITERATION |-> 0, call |-> "FAIL"]
       ELSE [CURRENTSTATUS |-> STATUS, ITERATION |-> ITER + 1, call |-> "none"]

health_counts_first(STATUS, ITER, GOOD, HOLDDOWNLOCAL, HOLDUPLOCAL) ==
  IF Len(GOOD) > 0
  THEN IF STATUS = 0
       THEN IF ITER + 1 >= int(HOLDDOWNLOCAL)
            THEN [CURRENTSTATUS |-> 1, ITERATION |-> 0, call |-> "RECOVER"]
            ELSE [CURRENTSTATUS |-> STATUS, ITERATION |-> ITER + 1, call |-> "none"]
       ELSE [CURRENTSTATUS |-> STATUS, ITERATION |-> ITER, call |-> "none"]
  ELSE IF STATUS = 1
       THEN IF ITER + 1 >= int(HOLDUPLOCAL)
            THEN [CURRENTSTATUS |-> 0, ITERATION |-> 0, call |-> "FAIL"]
            ELSE [CURRENTSTATUS |-> STATUS, ITERATION |-> ITER + 1, call |-> "none"]
       ELSE [CURRENTSTATUS |-> STATUS, ITERATION |-> ITER, call |-> "none"]

\* A variant that compares the count with the threshold by = and so misses
\* a threshold that was lowered past the count.
health_equals(STATUS, ITER, GOOD, HOLDDOWNLOCAL, HOLDUPLOCAL) ==
  IF Len(GOOD) > 0
  THEN IF STATUS = 0
       THEN IF ITER = int(HOLDDOWNLOCAL)
            THEN [CURRENTSTATUS |-> 1, ITERATION |-> 0, call |-> "RECOVER"]
            ELSE [CURRENTSTATUS |-> STATUS, ITERATION |-> ITER + 1, call |-> "none"]
       ELSE [CURRENTSTATUS |-> STATUS, ITERATION |-> ITER, call |-> "none"]
  ELSE IF STATUS = 1
       THEN IF ITER = int(HOLDUPLOCAL)
            THEN [CURRENTSTATUS |-> 0, ITERATION |-> 0, call |-> "FAIL"]
            ELSE [CURRENTSTATUS |-> STATUS, ITERATION |-> ITER + 1, call |-> "none"]
       ELSE [CURRENTSTATUS |-> STATUS, ITERATION |-> ITER, call |-> "none"]

\* A variant that calls change_config again in every round that finds the
\* state it is in borne out.
health_redispatches(STATUS, ITER, GOOD, HOLDDOWNLOCAL, HOLDUPLOCAL) ==
  IF Len(GOOD) > 0
  THEN IF STATUS = 0
       THEN IF ITER >= int(HOLDDOWNLOCAL)
            THEN [CURRENTSTATUS |-> 1, ITERATION |-> 0, call |-> "RECOVER"]
            ELSE [CURRENTSTATUS |-> STATUS, ITERATION |-> ITER + 1, call |-> "none"]
       ELSE [CURRENTSTATUS |-> STATUS, ITERATION |-> ITER, call |-> "RECOVER"]
  ELSE IF STATUS = 1
       THEN IF ITER >= int(HOLDUPLOCAL)
            THEN [CURRENTSTATUS |-> 0, ITERATION |-> 0, call |-> "FAIL"]
            ELSE [CURRENTSTATUS |-> STATUS, ITERATION |-> ITER + 1, call |-> "none"]
       ELSE [CURRENTSTATUS |-> STATUS, ITERATION |-> ITER, call |-> "FAIL"]

\* A variant that makes the transition only when the count is past the
\* threshold.
health_past_threshold(STATUS, ITER, GOOD, HOLDDOWNLOCAL, HOLDUPLOCAL) ==
  IF Len(GOOD) > 0
  THEN IF STATUS = 0
       THEN IF ITER > int(HOLDDOWNLOCAL)
            THEN [CURRENTSTATUS |-> 1, ITERATION |-> 0, call |-> "RECOVER"]
            ELSE [CURRENTSTATUS |-> STATUS, ITERATION |-> ITER + 1, call |-> "none"]
       ELSE [CURRENTSTATUS |-> STATUS, ITERATION |-> ITER, call |-> "none"]
  ELSE IF STATUS = 1
       THEN IF ITER > int(HOLDUPLOCAL)
            THEN [CURRENTSTATUS |-> 0, ITERATION |-> 0, call |-> "FAIL"]
            ELSE [CURRENTSTATUS |-> STATUS, ITERATION |-> ITER + 1, call |-> "none"]
       ELSE [CURRENTSTATUS |-> STATUS, ITERATION |-> ITER, call |-> "none"]

\* The decision on the lists of the round (src/legacy/PingCheck.py 464-492).
\* HOLDDOWNLOCAL and HOLDUPLOCAL are the strings on_timeout read.  The result
\* tells which change_config call is made, and whether CURRENTSTATUS and
\* ITERATION are assigned before the call (recovery) or after it (failure).
health_legacy(STATUS, ITER, GOOD, HOLDDOWNLOCAL, HOLDUPLOCAL) ==
  IF Len(GOOD) > 0
  THEN IF STATUS = 0
       THEN IF ITER >= int(HOLDDOWNLOCAL)
            THEN [CURRENTSTATUS |-> 1, ITERATION |-> 0, call |-> "RECOVER"]
            ELSE [CURRENTSTATUS |-> STATUS, ITERATION |-> ITER + 1, call |-> "none"]
       ELSE [CURRENTSTATUS |-> STATUS, ITERATION |-> ITER, call |-> "none"]
  ELSE IF STATUS = 1
       THEN IF ITER >= int(HOLDUPLOCAL)
            THEN [CURRENTSTATUS |-> 0, ITERATION |-> 0, call |-> "FAIL"]
            ELSE [CURRENTSTATUS |-> STATUS, ITERATION |-> ITER + 1, call |-> "none"]
       ELSE [CURRENTSTATUS |-> STATUS, ITERATION |-> ITER, call |-> "none"]

\* The same decision in src/PingCheck.py (426-454).
health_main(STATUS, ITER, GOOD, HOLDDOWNLOCAL, HOLDUPLOCAL) ==
  IF Len(GOOD) > 0
  THEN IF STATUS = 0
       THEN IF ITER >= int(HOLDDOWNLOCAL)
            THEN [CURRENTSTATUS |-> 1, ITERATION |-> 0, call |-> "RECOVER"]
            ELSE [CURRENTSTATUS |-> STATUS, ITERATION |-> ITER + 1, call |-> "none"]
       ELSE [CURRENTSTATUS |-> STATUS, ITERATION |-> ITER, call |-> "none"]
  ELSE IF STATUS = 1
       THEN IF ITER >= int(HOLDUPLOCAL)
            THEN [CURRENTSTATUS |-> 0, ITERATION |-> 0, call |-> "FAIL"]
            ELSE [CURRENTSTATUS |-> STATUS, ITERATION |-> ITER + 1, call |-> "none"]
       ELSE [CURRENTSTATUS |-> STATUS, ITERATION |-> ITER, call |-> "none"]

\* HOLDDOWNLOCAL, HOLDUPLOCAL: the option if it is set, else the default
\* (int() of the integer default is the default)
HOLDDOWNLOCAL(v, o) ==
  IF IsSet(o.HOLDDOWN) THEN o.HOLDDOWN
  ELSE ToString(IF v = "legacy" THEN HOLDDOWN_legacy ELSE HOLDDOWN_main)
HOLDUPLOCAL(v, o) ==
  IF IsSet(o.HOLDUP) THEN o.HOLDUP
  ELSE ToString(IF v = "legacy" THEN HOLDUP_legacy ELSE HOLDUP_main)

\* ------------------------------------------------------------- the state

VARIABLES
  ver,             \* which version of the agent runs
  opt,             \* the daemon's options IPv4, HOLDDOWN, HOLDUP (agent_option)
  CURRENTSTATUS,   \* 1 is Good, 0 is Down
  ITERATION,       \* the counter kept between rounds
  DEADIPV4,        \* the hosts last seen down
  GOODIPV4,        \* the hosts last seen up
  SOURCEINTFADDR,  \* the source address check_interface resolved last
  HealthStatus,    \* the published value of "Health Status:"
  pc,              \* "constructed", "armed" (the timer is set), "dead" (an
                   \* exception left a handler: no timer is set)
  last,            \* what the handler that ran last did (observation only)
  streak,          \* count of consecutive pursuing rounds (observation only)
  pursued,         \* count of all pursuing rounds since the state was
                   \* entered (observation only)
  seen,            \* the environment the last round ran in, where a
                   \* specification watches it (observation only)
  dispatched       \* the change_config call made last, "" before the first,
                   \* where a specification tracks it (observation only)

vars == << ver, opt, CURRENTSTATUS, ITERATION, DEADIPV4, GOODIPV4,
           SOURCEINTFADDR, HealthStatus, pc, last, streak, pursued, seen,
           dispatched >>

\* no round has been watched
Unseen == [EnvOK EXCEPT !.applies = "unseen"]

\* the values the operator gives the options
IPv4Values ==
  { <<>>,                          \* not configured
    <<"10.1.1.1">>,
    <<"10.1.1.1", "10.1.2.1">>,
    <<"10.1.1.1", "10.1.1.1">> }   \* an address listed twice
HoldValues == {Unset} \cup {ToString(n) : n \in 0..MaxHold}
Options == [IPv4 : IPv4Values, HOLDDOWN : HoldValues, HOLDUP : HoldValues]

\* what the pings of the addresses can come to, one result for each place of
\* the list: Bogus never answers
PingResults(EachAddress) ==
  {f \in [1..Len(EachAddress) -> BOOLEAN] :
     \A i \in 1..Len(EachAddress) : EachAddress[i] = Bogus => ~f[i]}

\* ----------------------------------------------------------- on_timeout

(***************************************************************************)
(* What one call of on_timeout does, as a record:                          *)
(*   kind    "valid" (check_vars returned 1 and the round ran to its end), *)
(*           "invalid" (check_vars returned 0), "raised" (an exception     *)
(*           left on_timeout before the timer was set again)               *)
(*   STATUS, ITER   CURRENTSTATUS and ITERATION when the round began       *)
(*   HOLDDOWN, HOLDUP   the thresholds of the round                        *)
(*   answer   what the pings of the round came to, see answer_of           *)
(*   allDown  GOODIPV4 was empty after the pings                           *)
(*   probes, events, calls, submitted   the pings made, the host messages  *)
(*           logged, the change_config calls and the batches handed to     *)
(*           run_config_cmds                                               *)
(*   streak, pursued   the counts of the rounds, see below                 *)
(*   pings   what pingDUT returned for each place of the list, in a round  *)
(*           that ran to its end                                           *)
(*   wait    the seconds from the clock reading handed to timeout_time_is  *)
(*           to the wake time of the next round (0 when none was set)      *)
(*   timers  the calls of timeout_time_is the handler made                 *)
(*   written  the calls of status_set("Health Status:", ...) the handler   *)
(*           made, in order: the value written, and how many pings and how *)
(*           many change_config calls the handler had made by then         *)
(* and the new values of the agent's fields.                               *)
(***************************************************************************)
RoundRecord(kind, STATUS, ITER, o, v, answer, allDown, probes, events, calls, submitted) ==
  [ kind |-> kind, STATUS |-> STATUS, ITER |-> ITER,
    HOLDDOWN |-> int(HOLDDOWNLOCAL(v, o)), HOLDUP |-> int(HOLDUPLOCAL(v, o)),
    answer |-> answer, allDown |-> allDown, probes |-> probes, events |-> events,
    calls |-> calls, submitted |-> submitted, streak |-> 0, pursued |-> 0,
    wait |-> 0, pings |-> <<>>, written |-> <<>>, timers |-> 0 ]

\* the record of a handler that is no round of on_timeout
NoRound(kind) ==
  [ kind |-> kind, STATUS |-> 1, ITER |-> 0, HOLDDOWN |-> 0, HOLDUP |-> 0,
    answer |-> "none", allDown |-> FALSE, probes |-> <<>>, events |-> <<>>,
    calls |-> <<>>, submitted |-> <<>>, streak |-> 0, pursued |-> 0,
    wait |-> 0, pings |-> <<>>, written |-> <<>>, timers |-> 0 ]

\* one call of status_set("Health Status:", value), made when the handler had
\* made probes pings and calls calls of change_config
Written(value, probes, calls) ==
  [value |-> value, probes |-> Len(probes), calls |-> Len(calls)]

\* A variant of the end of a valid round that publishes the state the round
\* began in.
round_end_stale(v, o, STATUS, ITER, sia, hs, answer, agg, h, cc) ==
  LET calls == IF h.call = "none" THEN <<>> ELSE <<h.call>>
      submitted == IF h.call = "none" THEN <<>> ELSE cc.submitted
      raised == h.call # "none" /\ cc.raised
  IN  [ f |->
          [ CURRENTSTATUS  |-> IF raised /\ h.call = "FAIL" THEN STATUS
                               ELSE h.CURRENTSTATUS,
            ITERATION      |-> IF raised /\ h.call = "FAIL" THEN ITER
                               ELSE h.ITERATION,
            GOODIPV4       |-> agg.GOODIPV4,
            DEADIPV4       |-> agg.DEADIPV4,
            SOURCEINTFADDR |-> sia,
            HealthStatus   |-> IF raised THEN hs
                               ELSE IF STATUS = 1 THEN "GOOD" ELSE "FAIL" ],
        last |->
          [ RoundRecord(IF raised THEN "raised" ELSE "valid", STATUS, ITER, o, v,
                        answer, Len(agg.GOODIPV4) = 0, agg.probes, agg.events,
                        calls, submitted)
            EXCEPT !.written =
              IF raised THEN <<>>
              ELSE <<Written(IF STATUS = 1 THEN "GOOD" ELSE "FAIL",
                             agg.probes, calls)>> ] ]

\* A variant of the end of a valid round that publishes the state decided on
\* before it calls change_config.
round_end_early(v, o, STATUS, ITER, sia, hs, answer, agg, h, cc) ==
  LET calls == IF h.call = "none" THEN <<>> ELSE <<h.call>>
      submitted == IF h.call = "none" THEN <<>> ELSE cc.submitted
      raised == h.call # "none" /\ cc.raised
  IN  [ f |->
          [ CURRENTSTATUS  |-> IF raised /\ h.call = "FAIL" THEN STATUS
                               ELSE h.CURRENTSTATUS,
            ITERATION      |-> IF raised /\ h.call = "FAIL" THEN ITER
                               ELSE h.ITERATION,
            GOODIPV4       |-> agg.GOODIPV4,
            DEADIPV4       |-> agg.DEADIPV4,
            SOURCEINTFADDR |-> sia,
            HealthStatus   |-> IF h.CURRENTSTATUS = 1 THEN "GOOD" ELSE "FAIL" ],
        last |->
          [ RoundRecord(IF raised THEN "raised" ELSE "valid", STATUS, ITER, o, v,
                        answer, Len(agg.GOODIPV4) = 0, agg.probes, agg.events,
                        calls, submitted)
            EXCEPT !.written =
              <<Written(IF h.CURRENTSTATUS = 1 THEN "GOOD" ELSE "FAIL",
                        agg.probes, <<>>)>> ] ]

\* The end of a valid round, from the decision h on the lists agg the pings
\* left and the change_config call cc it asks for, to the Health Status.
round_end(v, o, STATUS, ITER, sia, hs, answer, agg, h, cc) ==
  LET calls == IF h.call = "none" THEN <<>> ELSE <<h.call>>
      submitted == IF h.call = "none" THEN <<>> ELSE cc.submitted
      raised == h.call # "none" /\ cc.raised
  IN  [ f |->
          [ \* change_config('FAIL') is called before CURRENTSTATUS and
            \* ITERATION are assigned, change_config('RECOVER') after
            CURRENTSTATUS  |-> IF raised /\ h.call = "FAIL" THEN STATUS
                               ELSE h.CURRENTSTATUS,
            ITERATION      |-> IF raised /\ h.call = "FAIL" THEN ITER
                               ELSE h.ITERATION,
            GOODIPV4       |-> agg.GOODIPV4,
            DEADIPV4       |-> agg.DEADIPV4,
            SOURCEINTFADDR |-> sia,
            HealthStatus   |-> IF raised THEN hs
                               ELSE IF h.CURRENTSTATUS = 1 THEN "GOOD" ELSE "FAIL" ],
        last |->
          [ RoundRecord(IF raised THEN "raised" ELSE "valid", STATUS, ITER, o, v,
                        answer, Len(agg.GOODIPV4) = 0, agg.probes, agg.events,
                        calls, submitted)
            \* status_set is the last statement of the branch, after the loop
            \* over the hosts, the decision and the change_config call
            EXCEPT !.written =
              IF raised THEN <<>>
              ELSE <<Written(IF h.CURRENTSTATUS = 1 THEN "GOOD" ELSE "FAIL",
                             agg.probes, calls)>> ] ]

\* The decision and the change_config call, on the lists agg the pings left.
round_decide(v, o, STATUS, ITER, sia, hs, env, answer, agg, h) ==
  round_end(v, o, STATUS, ITER, sia, hs, answer, agg, h, change_config(h.call, env))

\* The part of on_timeout after check_vars returned 1, from the loop over
\* the hosts to the Health Status (legacy 424-498, main 360-460).
\* sia is SOURCEINTFADDR as check_vars left it, hs the Health Status so far.
round_pinged(v, o, STATUS, ITER, sia, hs, env, answer, agg) ==
  round_decide(v, o, STATUS, ITER, sia, hs, env, answer, agg,
    IF v = "legacy"
    THEN health_legacy(STATUS, ITER, agg.GOODIPV4, HOLDDOWNLOCAL(v, o), HOLDUPLOCAL(v, o))
    ELSE health_main(STATUS, ITER, agg.GOODIPV4, HOLDDOWNLOCAL(v, o), HOLDUPLOCAL(v, o)))

\* What the pings of a round came to, for the properties: "some" when some
\* address answered every ping made to it, "none" when no ping was answered,
\* "mixed" when only an address that is listed twice answered, and not
\* every time.
answer_of(EachAddress, pings) ==
  IF \E i \in DOMAIN pings :
       \A j \in DOMAIN pings : EachAddress[j] = EachAddress[i] => pings[j]
  THEN "some"
  ELSE IF \A i \in DOMAIN pings : ~pings[i] THEN "none"
  ELSE "mixed"

valid_round(v, o, STATUS, ITER, GOOD, DEAD, sia, hs, env, pings) ==
  LET \* pingDUT adds -I only for a source address; pingDUTeAPI is passed one
      source == IF Truthy(sia) THEN sia ELSE None
      unchanged == [CURRENTSTATUS |-> STATUS, ITERATION |-> ITER,
                    GOODIPV4 |-> GOOD, DEADIPV4 |-> DEAD,
                    SOURCEINTFADDR |-> sia, HealthStatus |-> hs]
  IN  IF v = "main" /\ sia = Undefined
        \* "if SOURCEINTFADDR:" names a global no one has assigned: NameError
        THEN [f |-> unchanged,
              last |-> RoundRecord("raised", STATUS, ITER, o, v, "none", FALSE,
                                   <<>>, <<>>, <<>>, <<>>)]
      ELSE IF ~env.pingStarts
        \* pingDUT: Popen raised and the except clause logs "output", which
        \* is not bound; pingDUTeAPI: no try at all around the request
        THEN [f |-> unchanged,
              last |-> RoundRecord("raised", STATUS, ITER, o, v, "none", FALSE,
                                   <<[host |-> o.IPv4[1], source |-> source]>>,
                                   <<>>, <<>>, <<>>)]
      ELSE round_pinged(v, o, STATUS, ITER, sia, hs, env,
             answer_of(o.IPv4, pings),
             ping_hosts(v, o.IPv4, pings, source, 1,
               [GOODIPV4 |-> GOOD, DEADIPV4 |-> DEAD, events |-> <<>>, probes |-> <<>>]))

\* A variant of on_timeout that starts the count afresh when check_vars
\* refuses the configuration, against which the frame of such a round is tried.
round_checked_resetting(v, o, STATUS, ITER, GOOD, DEAD, hs, env, pings, cv) ==
  IF cv.ret = 1
  THEN valid_round(v, o, STATUS, ITER, GOOD, DEAD, cv.SOURCEINTFADDR, hs, env, pings)
  ELSE [f |-> [CURRENTSTATUS |-> STATUS, ITERATION |-> 0,
               GOODIPV4 |-> GOOD, DEADIPV4 |-> DEAD,
               SOURCEINTFADDR |-> cv.SOURCEINTFADDR,
               HealthStatus |-> "INACTIVE"],
        last |-> [RoundRecord("invalid", STATUS, ITER, o, v, "none", FALSE,
                              <<>>, <<>>, <<>>, <<>>)
                  EXCEPT !.written = <<Written("INACTIVE", <<>>, <<>>)>>]]

\* A variant of on_timeout that publishes "Unknown" again when check_vars
\* refuses the configuration.
round_checked_unknown(v, o, STATUS, ITER, GOOD, DEAD, hs, env, pings, cv) ==
  IF cv.ret = 1
  THEN valid_round(v, o, STATUS, ITER, GOOD, DEAD, cv.SOURCEINTFADDR, hs, env, pings)
  ELSE [f |-> [CURRENTSTATUS |-> STATUS, ITERATION |-> ITER,
               GOODIPV4 |-> GOOD, DEADIPV4 |-> DEAD,
               SOURCEINTFADDR |-> cv.SOURCEINTFADDR,
               HealthStatus |-> "Unknown"],
        last |-> [RoundRecord("invalid", STATUS, ITER, o, v, "none", FALSE,
                              <<>>, <<>>, <<>>, <<>>)
                  EXCEPT !.written = <<Written("Unknown", <<>>, <<>>)>>]]

\* on_timeout from check_vars, whose result is cv, on
round_checked(v, o, STATUS, ITER, GOOD, DEAD, hs, env, pings, cv) ==
  IF cv.ret = 1
  THEN valid_round(v, o, STATUS, ITER, GOOD, DEAD, cv.SOURCEINTFADDR, hs, env, pings)
  ELSE [f |-> [CURRENTSTATUS |-> STATUS, ITERATION |-> ITER,
               GOODIPV4 |-> GOOD, DEADIPV4 |-> DEAD,
               SOURCEINTFADDR |-> cv.SOURCEINTFADDR,
               HealthStatus |-> "INACTIVE"],
        last |-> [RoundRecord("invalid", STATUS, ITER, o, v, "none", FALSE,
                              <<>>, <<>>, <<>>, <<>>)
                  EXCEPT !.written = <<Written("INACTIVE", <<>>, <<>>)>>]]

\* on_timeout as a whole: check_vars, then the round or INACTIVE.
round(v, o, STATUS, ITER, GOOD, DEAD, sia, hs, env, pings) ==
  round_checked(v, o, STATUS, ITER, GOOD, DEAD, hs, env, pings,
    IF v = "legacy" THEN check_vars_legacy(o.IPv4, env, sia)
    ELSE check_vars_main(o.IPv4, env, sia))

\* The last lines of on_timeout, after a valid round and after INACTIVE
\* alike: the seconds to wait that are added to the clock reading handed to
\* timeout_time_is.  int() raises for text that is no number.
CHECKINTERVAL_of(v, env) ==
  IF IsSet(env.CHECKINTERVAL) THEN env.CHECKINTERVAL
  ELSE ToString(IF v = "legacy" THEN CHECKINTERVAL_legacy ELSE CHECKINTERVAL_main)

\* a variant that always waits the whole interval
schedule_uncompensated(env) ==
  IF ~IsNumeric(CHECKINTERVAL_of("legacy", env))
  THEN [raised |-> TRUE, wait |-> 0, timers |-> 0]
  ELSE [raised |-> FALSE, wait |-> int(CHECKINTERVAL_of("legacy", env)), timers |-> 1]

\* a variant that sets no timer after a round that took longer than the
\* interval
schedule_drops_overrun(env) ==
  IF ~IsNumeric(CHECKINTERVAL_of("legacy", env))
  THEN [raised |-> TRUE, wait |-> 0, timers |-> 0]
  ELSE IF env.runTime > int(CHECKINTERVAL_of("legacy", env))
       THEN [raised |-> FALSE, wait |-> 0, timers |-> 0]
       ELSE [raised |-> FALSE,
             wait |-> int(CHECKINTERVAL_of("legacy", env)) - env.runTime,
             timers |-> 1]

\* runTime = now - startTime; at once if it is more than the interval, else
\* after what is left of the interval.  Each of the four branches ends in
\* one call of timeout_time_is; int() raises before it.
schedule_legacy(env) ==
  IF ~IsNumeric(CHECKINTERVAL_of("legacy", env))
  THEN [raised |-> TRUE, wait |-> 0, timers |-> 0]
  ELSE IF env.runTime > int(CHECKINTERVAL_of("legacy", env))
       THEN [raised |-> FALSE, wait |-> 0, timers |-> 1]
       ELSE [raised |-> FALSE,
             wait |-> int(CHECKINTERVAL_of("legacy", env)) - env.runTime,
             timers |-> 1]

\* timeout_time_is(eossdk.now() + int(CHECKINTERVAL))
schedule_main(env) ==
  IF ~IsNumeric(CHECKINTERVAL_of("main", env))
  THEN [raised |-> TRUE, wait |-> 0, timers |-> 0]
  ELSE [raised |-> FALSE, wait |-> int(CHECKINTERVAL_of("main", env)), timers |-> 1]

\* on_timeout to its last line: a round that raised has set no timer
scheduled(v, env, r) ==
  IF r.last.kind = "raised" THEN r
  ELSE LET s == IF v = "legacy" THEN schedule_legacy(env) ELSE schedule_main(env)
       IN  [r EXCEPT !.last.kind = IF s.raised THEN "raised" ELSE @,
                     !.last.wait = s.wait,
                     !.last.timers = s.timers]

\* ------------------------------------------------- counts over the rounds

(***************************************************************************)
(* streak counts the valid rounds (a round that check_vars refuses neither *)
(* counts nor breaks the count).  A round "pursues" the other state when   *)
(* it finds the condition for leaving the state it began in: no host in    *)
(* GOODIPV4 when it began in Good, some host when it began in Fail.        *)
(* streak is the number of consecutive valid rounds, up to the last one,   *)
(* that pursued the other state since the last transition; the record of a *)
(* valid round holds the number with that round counted.                   *)
(***************************************************************************)
StreakCap == MaxHold + 2
Min(a, b) == IF a < b THEN a ELSE b

Pursues(r) == IF r.STATUS = 1 THEN r.allDown ELSE ~r.allDown

StreakWith(n, r) ==
  IF r.kind # "valid" THEN 0
  ELSE IF Pursues(r) THEN Min(n + 1, StreakCap)
  ELSE 0

StreakNext(n, r, STATUS) ==
  IF r.kind # "valid" THEN n
  ELSE IF STATUS # r.STATUS THEN 0
  ELSE StreakWith(n, r)

\* pursued is the number of valid rounds, consecutive or not, that pursued
\* the other state since the state was entered (or the daemon started); the
\* record of a valid round holds the number with that round counted.
PursuedWith(n, r) ==
  IF r.kind = "valid" /\ Pursues(r) THEN Min(n + 1, StreakCap) ELSE n

PursuedNext(n, r, STATUS) ==
  IF r.kind # "valid" THEN n
  ELSE IF STATUS # r.STATUS THEN 0
  ELSE PursuedWith(n, r)

\* ------------------------------------------------------------ the actions

\* __init__ (legacy 142-171) and the module globals (main 103-126); the
\* options are what the operator configured before the daemon started.
InitOf(v) ==
  /\ ver = v
  /\ opt \in Options
  /\ CURRENTSTATUS = 1
  /\ ITERATION = 0
  /\ DEADIPV4 = <<>>
  /\ GOODIPV4 = <<>>
  /\ SOURCEINTFADDR = IF ver = "legacy" THEN None ELSE Undefined
  /\ HealthStatus = Unset
  /\ pc = "constructed"
  /\ last = NoRound("none")
  /\ streak = 0
  /\ pursued = 0
  /\ seen = Unseen
  /\ dispatched = ""

Init == \E v \in Versions : InitOf(v)

\* on_initialized: echoes the options, publishes "Unknown" and sets the timer
on_initialized ==
  /\ pc = "constructed"
  /\ HealthStatus' = "Unknown"
  /\ pc' = "armed"
  /\ last' = [NoRound("initialized") EXCEPT !.timers = 1]
  /\ UNCHANGED << ver, opt, CURRENTSTATUS, ITERATION, DEADIPV4, GOODIPV4,
                  SOURCEINTFADDR, streak, pursued, seen, dispatched >>

\* The operator sets option optionName to value; on_agent_option echoes it to
\* the status of the daemon and touches nothing else.
on_agent_option(optionName, value) ==
  /\ pc = "armed"
  /\ opt[optionName] # value
  /\ opt' = [opt EXCEPT ![optionName] = value]
  /\ last' = NoRound("option")
  /\ seen' = Unseen
  /\ UNCHANGED << ver, CURRENTSTATUS, ITERATION, DEADIPV4, GOODIPV4,
                  SOURCEINTFADDR, HealthStatus, pc, streak, pursued,
                  dispatched >>

\* The timer fires: one round.  An exception that leaves on_timeout leaves
\* it before timeout_time_is, so no further round is scheduled.  What seen
\* and dispatched become is left to the specification.
on_timeout(env, pings) ==
  /\ pc = "armed"
  /\ \E r \in {scheduled(ver, env,
                  round(ver, opt, CURRENTSTATUS, ITERATION, GOODIPV4, DEADIPV4,
                        SOURCEINTFADDR, HealthStatus, env, pings))} :
         /\ CURRENTSTATUS' = r.f.CURRENTSTATUS
         /\ ITERATION' = r.f.ITERATION
         /\ GOODIPV4' = r.f.GOODIPV4
         /\ DEADIPV4' = r.f.DEADIPV4
         /\ SOURCEINTFADDR' = r.f.SOURCEINTFADDR
         /\ HealthStatus' = r.f.HealthStatus
         /\ last' = [r.last EXCEPT !.streak = StreakWith(streak, r.last),
                                   !.pursued = PursuedWith(pursued, r.last),
                                   !.pings = IF r.last.kind = "valid" THEN pings
                                             ELSE <<>>]
         /\ streak' = StreakNext(streak, r.last, r.f.CURRENTSTATUS)
         /\ pursued' = PursuedNext(pursued, r.last, r.f.CURRENTSTATUS)
         \* the next round runs when the timer this one set fires
         /\ pc' = IF r.last.timers = 0 THEN "dead" ELSE "armed"
  /\ UNCHANGED << ver, opt >>

\* the results of the pings a round makes in env: none if check_vars refuses
PingsOf(env) ==
  IF (IF ver = "legacy" THEN check_vars_legacy(opt.IPv4, env, SOURCEINTFADDR)
      ELSE check_vars_main(opt.IPv4, env, SOURCEINTFADDR)).ret = 1
  THEN PingResults(opt.IPv4)
  ELSE {<<>>}

Next ==
  \/ on_initialized
  \/ \E v \in IPv4Values : on_agent_option("IPv4", v)
  \/ \E v \in HoldValues : on_agent_option("HOLDDOWN", v)
  \/ \E v \in HoldValues : on_agent_option("HOLDUP", v)
  \/ \E env \in Envs : \E pings \in PingsOf(env) :
        on_timeout(env, pings) /\ UNCHANGED << seen, dispatched >>

\* every collaborator keeps its contract
\* both versions of the agent
Spec == Init /\ [][Next]_vars

\* The executions in which some ping succeeds in every round that pings.
SomeUp(pings) == pings = <<>> \/ answer_of(opt.IPv4, pings) = "some"

NextSomeUp ==
  \/ on_initialized
  \/ \E v \in IPv4Values : on_agent_option("IPv4", v)
  \/ \E v \in HoldValues : on_agent_option("HOLDDOWN", v)
  \/ \E v \in HoldValues : on_agent_option("HOLDUP", v)
  \/ \E env \in Envs : \E pings \in {p \in PingsOf(env) : SomeUp(p)} :
        on_timeout(env, pings) /\ UNCHANGED << seen, dispatched >>

SpecSomeUp == Init /\ [][NextSomeUp]_vars

\* src/legacy/PingCheck.py alone and src/PingCheck.py alone
SpecLegacy == InitOf("legacy") /\ [][Next]_vars
SpecMain == InitOf("main") /\ [][Next]_vars

\* A round that a specification watches: seen holds its environment.
watched(env, pings) ==
  on_timeout(env, pings) /\ seen' = env /\ UNCHANGED dispatched

\* A round of which a specification tracks the change_config call.
tracked(env, pings) ==
  /\ on_timeout(env, pings)
  /\ dispatched' = IF last'.calls # <<>> THEN last'.calls[Len(last'.calls)]
                   ELSE dispatched
  /\ UNCHANGED seen

(***************************************************************************)
(* The executions in which a collaborator may fail in a round that         *)
(* check_vars accepts: an action file that is there and not empty cannot   *)
(* be opened (check_vars asks os.path.isfile and os.path.getsize only),    *)
(* ping cannot be started or the eAPI request fails, run_config_cmds       *)
(* reports a failure or raises.                                            *)
(***************************************************************************)
EnvsFaulty ==
  { [EnvOK EXCEPT !.fail = File(TRUE, FailLines, FALSE)],
    [EnvOK EXCEPT !.recover = File(TRUE, RecoverLines, FALSE)],
    [EnvOK EXCEPT !.pingStarts = FALSE],
    [EnvOK EXCEPT !.applies = "failure"],
    [EnvOK EXCEPT !.applies = "raises"] }

EnvsSound ==
  { EnvOK,
    [EnvOK EXCEPT !.SOURCE = "et1", !.primaryIp = "192.0.2.1"],
    [EnvOK EXCEPT !.CONF_FAIL = Unset] }

NextFaults ==
  \/ on_initialized
  \/ \E v \in IPv4Values : on_agent_option("IPv4", v)
  \/ \E v \in HoldValues : on_agent_option("HOLDDOWN", v)
  \/ \E v \in HoldValues : on_agent_option("HOLDUP", v)
  \/ \E env \in EnvsSound \cup EnvsFaulty : \E pings \in PingsOf(env) :
        watched(env, pings)

SpecFaults == Init /\ [][NextFaults]_vars
SpecFaultsLegacy == InitOf("legacy") /\ [][NextFaults]_vars

(***************************************************************************)
(* The executions in which the rounds take time and the operator may have  *)
(* configured CHECKINTERVAL.  Time is counted in whole seconds.  The       *)
(* thresholds are left unset.                                              *)
(***************************************************************************)
RunTimes == 0..MaxRunTime
CheckIntervals == {Unset, "2"}

EnvsTimed ==
  { [env EXCEPT !.runTime = t, !.CHECKINTERVAL = c] :
      env \in EnvsSound, t \in RunTimes, c \in CheckIntervals }

NextTimed ==
  \/ on_initialized
  \/ \E v \in IPv4Values : on_agent_option("IPv4", v)
  \/ \E env \in EnvsTimed : \E pings \in PingsOf(env) : watched(env, pings)

\* the daemon starts with HOLDDOWN and HOLDUP not configured
InitDefaultHolds(v) == InitOf(v) /\ opt.HOLDDOWN = Unset /\ opt.HOLDUP = Unset

SpecTimed == (\E v \in Versions : InitDefaultHolds(v)) /\ [][NextTimed]_vars
SpecTimedLegacy == InitDefaultHolds("legacy") /\ [][NextTimed]_vars

\* The executions in which the operator may have configured PINGTIMEOUT, at
\* the limit and out of range on either side; the thresholds are left unset.
EnvsPingTimeout ==
  EnvsSound \cup
  { [EnvOK EXCEPT !.PINGTIMEOUT = t] :
      t \in {"0", ToString(PINGTIMEOUT_MAX), "4000", "-1"} }

NextPingTimeout ==
  \/ on_initialized
  \/ \E v \in IPv4Values : on_agent_option("IPv4", v)
  \/ \E env \in EnvsPingTimeout : \E pings \in PingsOf(env) : watched(env, pings)

SpecPingTimeoutLegacy == InitDefaultHolds("legacy") /\ [][NextPingTimeout]_vars

\* The executions in which the operator never configures SOURCE.
EnvsNoSource == {env \in Envs : ~IsSet(env.SOURCE)}

NextNoSource ==
  \/ on_initialized
  \/ \E v \in IPv4Values : on_agent_option("IPv4", v)
  \/ \E v \in HoldValues : on_agent_option("HOLDDOWN", v)
  \/ \E v \in HoldValues : on_agent_option("HOLDUP", v)
  \/ \E env \in EnvsNoSource : \E pings \in PingsOf(env) :
        on_timeout(env, pings) /\ UNCHANGED << seen, dispatched >>

SpecNoSource == Init /\ [][NextNoSource]_vars

\* The executions in which the operator may have configured CHECKINTERVAL
\* with text that is no number; the thresholds are left unset.
EnvsIntervalText ==
  { [env EXCEPT !.CHECKINTERVAL = c] : env \in EnvsSound, c \in {Unset, "2", "five"} }

NextIntervalText ==
  \/ on_initialized
  \/ \E v \in IPv4Values : on_agent_option("IPv4", v)
  \/ \E env \in EnvsIntervalText : \E pings \in PingsOf(env) : watched(env, pings)

SpecIntervalTextLegacy == InitDefaultHolds("legacy") /\ [][NextIntervalText]_vars

\* The executions in which the operator may configure SOURCE, change it and
\* remove it again; the thresholds are left unset.
EnvsSource ==
  EnvsSound \cup
  { [EnvOK EXCEPT !.SOURCE = "et2", !.primaryIp = "192.0.2.2"],
    [EnvOK EXCEPT !.SOURCE = "et9", !.primaryIp = ""] }

NextSource ==
  \/ on_initialized
  \/ \E v \in IPv4Values : on_agent_option("IPv4", v)
  \/ \E env \in EnvsSource : \E pings \in PingsOf(env) : watched(env, pings)

SpecSourceLegacy == InitDefaultHolds("legacy") /\ [][NextSource]_vars

\* The executions in which the operator leaves HOLDDOWN and HOLDUP as they
\* were when the daemon started, whatever they were.
NextFixedHolds ==
  \/ on_initialized
  \/ \E v \in IPv4Values : on_agent_option("IPv4", v)
  \/ \E env \in Envs : \E pings \in PingsOf(env) :
        on_timeout(env, pings) /\ UNCHANGED << seen, dispatched >>

SpecFixedHolds == Init /\ [][NextFixedHolds]_vars

\* The executions in which every change_config call returns, whatever
\* run_config_cmds does, with the calls tracked.
EnvsDispatch ==
  EnvsSound \cup
  { [EnvOK EXCEPT !.applies = "failure"], [EnvOK EXCEPT !.applies = "raises"] }

NextDispatch ==
  \/ on_initialized
  \/ \E v \in IPv4Values : on_agent_option("IPv4", v)
  \/ \E v \in HoldValues : on_agent_option("HOLDDOWN", v)
  \/ \E v \in HoldValues : on_agent_option("HOLDUP", v)
  \/ \E env \in EnvsDispatch : \E pings \in PingsOf(env) : tracked(env, pings)

SpecDispatch == Init /\ [][NextDispatch]_vars

\* ------------------------------------------------------------ the properties

\* The last handler was a round of on_timeout that check_vars accepted and
\* that ran to its end; last holds what it began with and what it did.
ValidRound == last.kind = "valid"

EnteredFail == ValidRound /\ last.STATUS = 1 /\ CURRENTSTATUS = 0
EnteredGood == ValidRound /\ last.STATUS = 0 /\ CURRENTSTATUS = 1

\* C1: Fail is entered only after the reachable set (GOODIPV4) has been empty
\* for at least HOLDUP consecutive valid rounds since the last transition: a
\* round with a reachable endpoint breaks the count, so all-down rounds apart
\* never add up to a transition.  (This is the "only if" half of the claim;
\* how many consecutive rounds suffice is the subject of C4.)
C1_FailOnlyAfterConsecutiveAllDown ==
  EnteredFail => last.streak >= last.HOLDUP

\* C2: Good is entered only after the reachable set has been non-empty for at
\* least HOLDDOWN consecutive valid rounds since the last transition: an
\* all-down round in Fail breaks the count.
C2_GoodOnlyAfterConsecutiveUp ==
  EnteredGood => last.streak >= last.HOLDDOWN

\* C3: change_config('FAIL') is called exactly once in a round that goes from
\* Good to Fail and in no other round, change_config('RECOVER') exactly once
\* in a round that goes from Fail to Good and in no other round; a round that
\* stays in its state calls neither.
C3_ActionOncePerEdge ==
  ValidRound =>
    /\ (last.calls = <<"FAIL">>) <=> (last.STATUS = 1 /\ CURRENTSTATUS = 0)
    /\ (last.calls = <<"RECOVER">>) <=> (last.STATUS = 0 /\ CURRENTSTATUS = 1)
    /\ last.calls \in {<<>>, <<"FAIL">>, <<"RECOVER">>}

C3_RecoveredOnce ==
  EnteredGood /\ last.calls = <<"RECOVER">> /\ Len(last.submitted) = 1

\* A valid round that began in Good and left GOODIPV4 empty, in a run of such
\* rounds that began with ITERATION = 0: each round of the run that makes no
\* transition adds one to ITERATION, so the round that is the k-th of its run
\* began with ITERATION = k - 1 exactly when the run began with 0.
AllDownFromZero ==
  /\ ValidRound /\ last.STATUS = 1 /\ last.allDown
  /\ last.HOLDUP >= 1
  /\ last.ITER = last.streak - 1

C5_ThresholdZeroIsImmediate ==
  ValidRound =>
    /\ last.STATUS = 1 /\ last.HOLDUP = 0 /\ last.answer = "none" =>
         CURRENTSTATUS = 0 /\ last.calls = <<"FAIL">>
    /\ last.STATUS = 0 /\ last.HOLDDOWN = 0 /\ last.answer = "some" =>
         CURRENTSTATUS = 1 /\ last.calls = <<"RECOVER">>

\* C6: in src/PingCheck.py, with HOLDUP not set, a valid round that begins in
\* Good and finds all hosts down (every ping fails and GOODIPV4 is left
\* empty) goes to Fail and calls change_config('FAIL') in that round; with
\* HOLDDOWN not set, a valid round that begins in Fail and finds a host up
\* goes to Good and calls change_config('RECOVER') in that round.
C6_DefaultOfOneIsImmediate ==
  ver = "main" /\ ValidRound =>
    /\ opt.HOLDUP = Unset /\ last.STATUS = 1 /\ last.allDown /\ last.answer = "none" =>
         CURRENTSTATUS = 0 /\ last.calls = <<"FAIL">>
    /\ opt.HOLDDOWN = Unset /\ last.STATUS = 0 /\ ~last.allDown /\ last.answer = "some" =>
         CURRENTSTATUS = 1 /\ last.calls = <<"RECOVER">>

C8_ListsCoverConfigured ==
  ValidRound => ToSet(GOODIPV4) \cup ToSet(DEADIPV4) = ToSet(opt.IPv4)

\* C9: between the handlers no address is in both GOODIPV4 and DEADIPV4.
C9_ListsDisjoint ==
  ToSet(GOODIPV4) \cap ToSet(DEADIPV4) = {}

C9_HostMovedToGood ==
  /\ ValidRound
  /\ Len(GOODIPV4) > 0 /\ Len(DEADIPV4) > 0
  /\ \E i \in DOMAIN last.events :
       /\ last.events[i][2] = "is back up"
       /\ InList(last.events[i][1], GOODIPV4)
       /\ ~InList(last.events[i][1], DEADIPV4)

\* C10: a round in which check_vars returns 0 sets Health Status to INACTIVE,
\* pings nothing, calls change_config not at all, and leaves CURRENTSTATUS,
\* ITERATION, GOODIPV4 and DEADIPV4 as they were, so that the next valid
\* round goes on from them.
C10_InvalidRoundChangesNothing ==
  [][ last'.kind = "invalid" =>
        /\ HealthStatus' = "INACTIVE"
        /\ last'.probes = <<>> /\ last'.calls = <<>> /\ last'.events = <<>>
        /\ UNCHANGED << CURRENTSTATUS, ITERATION, GOODIPV4, DEADIPV4 >> ]_vars

C10_InvalidRoundMidCount ==
  /\ last.kind = "invalid" /\ HealthStatus = "INACTIVE"
  /\ CURRENTSTATUS = 0 /\ ITERATION > 0
  /\ Len(GOODIPV4) > 0 /\ Len(DEADIPV4) > 0

\* C11: a valid round that does not find the condition for leaving the state
\* it began in (a host in GOODIPV4 while in Good, none while in Fail) ends
\* with ITERATION = 0, so that no count is carried over.
C11_BrokenPursuitResetsCount ==
  ValidRound /\ ~Pursues(last) => ITERATION = 0

\* C12: the thresholds are those of the options as they are when the round
\* runs, and the count is compared with them by >=: a valid round that finds
\* the condition for leaving its state, with a count (ITERATION, or the
\* consecutive rounds before it) that is at or above the threshold as it is
\* now configured, makes the transition and calls change_config in that
\* very round.  A threshold lowered to or below the count is no trap.
C12_LoweredThresholdFiresNextRound ==
  ValidRound /\ Pursues(last) =>
    /\ last.STATUS = 1 /\ ( \/ last.ITER >= int(HOLDUPLOCAL(ver, opt))
                            \/ last.streak - 1 >= int(HOLDUPLOCAL(ver, opt)) )
         => CURRENTSTATUS = 0 /\ ITERATION = 0 /\ last.calls = <<"FAIL">>
    /\ last.STATUS = 0 /\ ( \/ last.ITER >= int(HOLDDOWNLOCAL(ver, opt))
                            \/ last.streak - 1 >= int(HOLDDOWNLOCAL(ver, opt)) )
         => CURRENTSTATUS = 1 /\ ITERATION = 0 /\ last.calls = <<"RECOVER">>

\* a round found the count above the threshold, which the operator had
\* lowered after the count was made, and went to Fail
C12_FailedPastLoweredHoldup ==
  /\ EnteredFail
  /\ last.ITER > int(HOLDUPLOCAL(ver, opt))
  /\ last.streak - 1 > int(HOLDUPLOCAL(ver, opt))
  /\ last.calls = <<"FAIL">>

\* the last round called change_config and the call failed: the file could
\* not be opened, or run_config_cmds reported a failure or raised
DispatchFailed ==
  /\ last.kind \in {"valid", "raised"}
  /\ last.calls # <<>>
  /\ \/ seen.applies \in {"failure", "raises"}
     \/ last.calls = <<"FAIL">> /\ ~seen.fail.readable
     \/ last.calls = <<"RECOVER">> /\ ~seen.recover.readable

\* C13: a round whose change_config call fails, in whichever way and for
\* whichever action, still ends in the state it decided on (Fail after
\* change_config('FAIL'), Good after change_config('RECOVER')) with ITERATION
\* 0, has made the call once, and has set the timer for the next round.
C13_DispatchFailureKeepsTransition ==
  DispatchFailed =>
    /\ pc = "armed"
    /\ Len(last.calls) = 1
    /\ ITERATION = 0
    /\ last.calls = <<"FAIL">> => CURRENTSTATUS = 0 /\ HealthStatus = "FAIL"
    /\ last.calls = <<"RECOVER">> => CURRENTSTATUS = 1 /\ HealthStatus = "GOOD"

\* the last round passed check_vars and came to ping its first host, and the
\* ping could not be made: Popen raised, or the eAPI request failed
ProbeRaised ==
  /\ last.kind \in {"valid", "raised"}
  /\ last.probes # <<>>
  /\ ~seen.pingStarts

\* C14: a round in which the ping raises takes the host as down and goes on:
\* every host of the list is pinged, the host that could not be pinged is in
\* DEADIPV4, the decision is made (Health Status is GOOD or FAIL) and the
\* timer is set for the next round.
C14_ProbeExceptionIsNegative ==
  ProbeRaised =>
    /\ last.kind = "valid"
    /\ pc = "armed"
    /\ Len(last.probes) = Len(opt.IPv4)
    /\ InList(last.probes[1].host, DEADIPV4)
    /\ HealthStatus \in {"GOOD", "FAIL"}

\* the last handler was a round that came to its last lines, where the timer
\* is set: a valid round or one that check_vars refused
RoundScheduled == last.kind \in {"valid", "invalid"}

\* C15: the wake time handed to timeout_time_is is never before the clock
\* reading it is computed from, and it is that reading itself (no wait) when
\* the round took longer than the check interval.
C15_OverrunWaitsNothing ==
  RoundScheduled =>
    /\ last.wait >= 0
    /\ seen.runTime > int(CHECKINTERVAL_of(ver, seen)) => last.wait = 0

\* a valid round took longer than a check interval of some seconds
C15_RoundOverran ==
  /\ ValidRound /\ pc = "armed"
  /\ int(CHECKINTERVAL_of(ver, seen)) > 0
  /\ seen.runTime > int(CHECKINTERVAL_of(ver, seen))
  /\ last.wait = 0

\* C16: when the round took less than the check interval, the wait handed
\* to timeout_time_is is what is left of the interval, after a valid round
\* and after a round that check_vars refused alike, so that the next round
\* starts one check interval after this one started.
C16_WaitIsRestOfInterval ==
  RoundScheduled /\ seen.runTime < int(CHECKINTERVAL_of(ver, seen)) =>
    last.wait = int(CHECKINTERVAL_of(ver, seen)) - seen.runTime

\* C17: on_initialized publishes "Unknown"; every valid round publishes GOOD
\* or FAIL, every round publishes something other than "Unknown", and once
\* the Health Status is not "Unknown" no handler makes it "Unknown" again.
C17_UnknownOnlyBeforeFirstRound ==
  [][ /\ pc = "constructed" => HealthStatus' = "Unknown"
      /\ last'.kind = "valid" => HealthStatus' \in {"GOOD", "FAIL"}
      /\ last'.kind \in {"valid", "invalid"} => HealthStatus' # "Unknown"
      /\ HealthStatus \notin {Unset, "Unknown"} => HealthStatus' # "Unknown" ]_vars

\* a round that check_vars refused, after rounds that had made the state
\* Fail: the Health Status is INACTIVE, not "Unknown"
C17_RefusedAfterFail ==
  /\ last.kind = "invalid"
  /\ CURRENTSTATUS = 0
  /\ HealthStatus = "INACTIVE"
  /\ DEADIPV4 # <<>>

\* C18: once published, the Health Status is one of "Unknown", "GOOD",
\* "FAIL" and "INACTIVE"; at the end of a valid round it is "GOOD" exactly
\* when CURRENTSTATUS is 1 and "FAIL" exactly when CURRENTSTATUS is 0; at
\* the end of a round that check_vars refused it is "INACTIVE".
C18_HealthStatusFollowsState ==
  /\ pc # "constructed" => HealthStatus \in {"Unknown", "GOOD", "FAIL", "INACTIVE"}
  /\ ValidRound => /\ HealthStatus = "GOOD" <=> CURRENTSTATUS = 1
                   /\ HealthStatus = "FAIL" <=> CURRENTSTATUS = 0
  /\ last.kind = "invalid" => HealthStatus = "INACTIVE"

\* a round went from Fail back to Good and published GOOD
C18_PublishedGoodOnRecovery ==
  /\ EnteredGood
  /\ HealthStatus = "GOOD"
  /\ last.calls = <<"RECOVER">>

\* the last handler was a round of on_timeout, however it ended
AnyRound == last.kind \in {"valid", "invalid", "raised"}

\* C19: a round that finds PINGTIMEOUT configured outside 0..3600, above or
\* below, is refused: Health Status INACTIVE, no ping, no decision.
C19_PingTimeoutOutOfRangeRefused ==
  /\ AnyRound
  /\ IsSet(seen.PINGTIMEOUT)
  /\ \/ int(seen.PINGTIMEOUT) > PINGTIMEOUT_MAX
     \/ int(seen.PINGTIMEOUT) < 0
  => /\ last.kind = "invalid"
     /\ HealthStatus = "INACTIVE"
     /\ last.probes = <<>> /\ last.calls = <<>>
     /\ CURRENTSTATUS = last.STATUS /\ ITERATION = last.ITER

\* C20: where SOURCE is never configured, every round that check_vars
\* accepts pings each host of the list without a source address, makes the
\* decision, publishes GOOD or FAIL and sets the timer for the next round.
C20_RoundsRunWithoutSource ==
  last.kind \in {"valid", "raised"} =>
    /\ last.kind = "valid"
    /\ Len(last.probes) = Len(opt.IPv4)
    /\ \A i \in DOMAIN last.probes : last.probes[i].source = None
    /\ HealthStatus \in {"GOOD", "FAIL"}
    /\ pc = "armed"

\* C21: every call of on_timeout ends with the timer set for the next round,
\* whatever text the options hold.
C21_EveryRoundSetsTimer ==
  AnyRound => last.kind # "raised" /\ pc = "armed"

\* C22: a valid round in which no ping of the configured addresses is
\* answered is an all-down round: GOODIPV4 is empty when the decision is made.
C22_AllDownByConfiguredHosts ==
  ValidRound /\ last.answer = "none" => last.allDown /\ GOODIPV4 = <<>>

\* C23: the pings of a valid round carry the address of the source interface
\* that is configured in that round, and no source address in a round in
\* which SOURCE is not configured.
C23_SourceIsOfThisRound ==
  ValidRound =>
    \A i \in DOMAIN last.probes :
      last.probes[i].source = IF IsSet(seen.SOURCE) THEN seen.primaryIp ELSE None

\* C24: a valid round that ends in the state it began in and finds that
\* state borne out (Good with a host in GOODIPV4, Fail with none) ends with
\* ITERATION = 0 and calls change_config not at all.
C24_StableRoundCountsNothing ==
  /\ ValidRound
  /\ CURRENTSTATUS = last.STATUS
  /\ (CURRENTSTATUS = 1 /\ GOODIPV4 # <<>>) \/ (CURRENTSTATUS = 0 /\ GOODIPV4 = <<>>)
  => ITERATION = 0 /\ last.calls = <<>>

\* the part of C24 about the calls alone
C24_StableRoundCallsNothing ==
  /\ ValidRound
  /\ (last.STATUS = 1 /\ GOODIPV4 # <<>>) \/ (last.STATUS = 0 /\ GOODIPV4 = <<>>)
  => last.calls = <<>> /\ CURRENTSTATUS = last.STATUS

C26_CallsAlternateFromFail ==
  [][ /\ Len(last'.calls) <= 1
      /\ last'.calls = <<"RECOVER">> => dispatched = "FAIL"
      /\ last'.calls = <<"FAIL">> =>
           /\ dispatched \in {"", "RECOVER"}
           /\ CURRENTSTATUS = 1 /\ CURRENTSTATUS' = 0 ]_vars

\* change_config('RECOVER') was called, after change_config('FAIL')
C26_RecoverFollowedFail ==
  /\ EnteredGood
  /\ last.calls = <<"RECOVER">>
  /\ dispatched = "RECOVER"

\* C27: a round of on_timeout calls change_config at most once, and it calls
\* it if and only if CURRENTSTATUS at its end differs from CURRENTSTATUS at
\* its start.
C27_OneCallIffStateChanged ==
  AnyRound =>
    /\ Len(last.calls) <= 1
    /\ last.calls # <<>> <=> CURRENTSTATUS # last.STATUS

\* a round went from Good to Fail and handed one batch to run_config_cmds
C27_OneCallOnEdgeToFail ==
  /\ EnteredFail
  /\ Len(last.calls) = 1
  /\ Len(last.submitted) = 1
  /\ HealthStatus = "FAIL"

\* The events the pings of a round give rise to, from the i-th place of the
\* list on, when unreachable is the set of hosts held to be down: "is down"
\* for a ping that fails of a host not in the set, "is back up" for a ping
\* that succeeds of a host in the set.
RECURSIVE EventsOf(_, _, _, _)
EventsOf(EachAddress, pings, unreachable, i) ==
  IF i > Len(EachAddress) THEN <<>>
  ELSE IF pings[i]
  THEN (IF EachAddress[i] \in unreachable
        THEN << <<EachAddress[i], "is back up">> >> ELSE <<>>)
       \o EventsOf(EachAddress, pings, unreachable \ {EachAddress[i]}, i + 1)
  ELSE (IF EachAddress[i] \notin unreachable
        THEN << <<EachAddress[i], "is down">> >> ELSE <<>>)
       \o EventsOf(EachAddress, pings, unreachable \cup {EachAddress[i]}, i + 1)

\* every ping of host in the round came to the result up
AllPingsOf(host, EachAddress, pings, up) ==
  \A i \in DOMAIN pings : EachAddress[i] = host => pings[i] = up

\* C28: the messages of a valid round are "is down" for every ping that
\* fails of a host that is not in DEADIPV4 and "is back up" for every ping
\* that succeeds of a host that is in DEADIPV4, and no others; a host whose
\* pings come to the same result as in the valid round just before has no
\* message.
C28_EventsOnChangeOnly ==
  [][ last'.kind = "valid" =>
        /\ last'.events = EventsOf(opt.IPv4, last'.pings, ToSet(DEADIPV4), 1)
        /\ last.kind = "valid" =>
             \A h \in ToSet(opt.IPv4) : \A up \in BOOLEAN :
               /\ AllPingsOf(h, opt.IPv4, last.pings, up)
               /\ AllPingsOf(h, opt.IPv4, last'.pings, up)
               => \A i \in DOMAIN last'.events : last'.events[i][1] # h ]_vars

\* a round logged that one host is down and that another is back up
C28_OneDownOneBackUp ==
  /\ ValidRound
  /\ \E i, j \in DOMAIN last.events :
       /\ last.events[i][2] = "is down"
       /\ last.events[j][2] = "is back up"
       /\ last.events[i][1] # last.events[j][1]

\* C29: a valid round pings every place of the configured list once, in the
\* order of the list, and decides on GOODIPV4 as the pings of the round left
\* it: a round goes to Fail only with GOODIPV4 empty after its pings, to
\* Good only with a host in it, and counts only when it pursues the other
\* state on the lists after its pings.
C29_AllPingsThenDecision ==
  ValidRound =>
    /\ Len(last.probes) = Len(opt.IPv4)
    /\ \A i \in DOMAIN last.probes : last.probes[i].host = opt.IPv4[i]
    /\ last.allDown <=> GOODIPV4 = <<>>
    /\ \A i \in DOMAIN last.pings :
         (\A j \in DOMAIN last.pings : j > i => opt.IPv4[j] # opt.IPv4[i]) =>
           /\ last.pings[i] => InList(opt.IPv4[i], GOODIPV4)
           /\ ~last.pings[i] => InList(opt.IPv4[i], DEADIPV4)
    /\ CURRENTSTATUS # last.STATUS => (CURRENTSTATUS = 0 <=> GOODIPV4 = <<>>)
    /\ ITERATION > last.ITER => (last.STATUS = 1 <=> GOODIPV4 = <<>>)

\* the first host answered and the second, pinged after it, did not
C29_SecondPingedAfterFirstUp ==
  /\ ValidRound
  /\ Len(last.probes) = 2
  /\ last.probes[1].host # last.probes[2].host
  /\ last.pings[1] /\ ~last.pings[2]
  /\ InList(last.probes[2].host, DEADIPV4)

\* The rounds in which a collaborator may fail, as in SpecFaults, with no
\* record kept of the environment of the round.
NextPartial ==
  \/ on_initialized
  \/ \E v \in IPv4Values : on_agent_option("IPv4", v)
  \/ \E v \in HoldValues : on_agent_option("HOLDDOWN", v)
  \/ \E v \in HoldValues : on_agent_option("HOLDUP", v)
  \/ \E env \in EnvsSound \cup EnvsFaulty : \E pings \in PingsOf(env) :
        on_timeout(env, pings) /\ UNCHANGED << seen, dispatched >>

SpecPartialLegacy == InitOf("legacy") /\ [][NextPartial]_vars

\* C30: a round of on_timeout writes the Health Status at most once, and
\* when it writes, every ping of the round has been made, the decision has
\* been taken and the change_config call, if the round makes one, has
\* returned; the value written is the state as the round leaves it (GOOD for
\* CURRENTSTATUS 1, FAIL for 0, INACTIVE when check_vars refused), and it is
\* what the status holds after the round.  A round that an exception left
\* before that point has written nothing: the status still holds what the
\* last round that ran to its end wrote.
C30_HealthStatusWrittenOnceAtEnd ==
  [][ last'.kind \in {"valid", "invalid", "raised"} =>
        /\ Len(last'.written) <= 1
        /\ \A i \in DOMAIN last'.written :
             /\ last'.written[i].probes = Len(last'.probes)
             /\ last'.written[i].calls = Len(last'.calls)
             /\ HealthStatus' = last'.written[i].value
             /\ IF last'.kind = "invalid"
                THEN last'.written[i].value = "INACTIVE"
                ELSE /\ Len(last'.probes) = Len(opt'.IPv4)
                     /\ last'.written[i].value =
                          IF CURRENTSTATUS' = 1 THEN "GOOD" ELSE "FAIL"
        /\ last'.written = <<>> =>
             /\ last'.kind = "raised"
             /\ HealthStatus' = HealthStatus
        /\ last'.kind \in {"valid", "invalid"} => Len(last'.written) = 1
    ]_vars

\* a round recovered: it pinged every host, called change_config('RECOVER'),
\* and wrote GOOD once, after the call
C30_WroteGoodAfterRecoverCall ==
  /\ last.kind = "valid"
  /\ last.calls = <<"RECOVER">>
  /\ last.written = <<[value |-> "GOOD", probes |-> Len(opt.IPv4), calls |-> 1]>>
  /\ HealthStatus = "GOOD"

\* change_config('RECOVER') raised in a round that began in Fail: the round
\* wrote nothing and the status still says FAIL
C30_RaisedRoundWroteNothing ==
  /\ last.kind = "raised"
  /\ last.calls = <<"RECOVER">>
  /\ last.written = <<>>
  /\ HealthStatus = "FAIL"

\* C31: the agent has one timer and the rounds follow one another on it.
\* on_initialized sets it once; a round of on_timeout that runs to its end
\* sets it once, as its last statement, and so is followed by one round; a
\* round that an exception left has set none and no round follows; the
\* handler of an option change sets none, so no second wake is ever pending;
\* and no round runs before on_initialized has set the timer.
C31_OneWakePerRound ==
  /\ last.timers <= 1
  /\ pc = "constructed" => last.kind = "none"
  /\ last.kind = "initialized" => last.timers = 1 /\ pc = "armed"
  /\ last.kind \in {"valid", "invalid"} => last.timers = 1 /\ pc = "armed"
  /\ last.kind = "raised" => last.timers = 0 /\ pc = "dead"
  /\ last.kind = "option" => last.timers = 0 /\ pc = "armed"

\* a round that began in Fail, so not the first round, and took longer than
\* the interval has set the timer once, for at once
C31_OverrunRoundSetOneWake ==
  /\ last.kind = "valid"
  /\ last.STATUS = 0
  /\ seen.runTime > int(CHECKINTERVAL_of(ver, seen))
  /\ last.timers = 1
  /\ last.wait = 0
  /\ pc = "armed"

\* ------------------------------------------------- the action files

\* Action files of several shapes: "enable", with blanks around it, as the
\* first line and again further down; "enable" only further down; a first
\* line "Enable"; a file of the one line "enable".
FailFiles ==
  { File(TRUE, FailLines, TRUE),
    File(TRUE, << Line("  ", "enable", " \n"), Line("", "enable", "\n"),
                  Line("", "interface Ethernet1", "\n") >>, TRUE),
    File(TRUE, << Line("", "Enable", "\n"), Line(" ", "enable", "\n") >>, TRUE),
    File(TRUE, << Line("", "enable", "\n") >>, TRUE) }

RecoverFiles ==
  { File(TRUE, RecoverLines, TRUE),
    File(TRUE, << Line("", "enable", "\n"), Line("", "interface Ethernet1", "\n"),
                  Line("   ", "enable", "\n") >>, TRUE) }

EnvsActionFiles ==
  { [EnvOK EXCEPT !.fail = f, !.recover = r] : f \in FailFiles, r \in RecoverFiles }

NextActionFiles ==
  \/ on_initialized
  \/ \E v \in IPv4Values : on_agent_option("IPv4", v)
  \/ \E env \in EnvsActionFiles : \E pings \in PingsOf(env) : watched(env, pings)

SpecActionFiles == Init /\ [][NextActionFiles]_vars

\* batch is the lines of file without the blanks around them, in the order
\* of the file, less the first line if that is "enable"
IsBatchOf(batch, file) ==
  LET d == IF file.lines[1].text = "enable" THEN 1 ELSE 0
  IN  /\ Len(batch) = Len(file.lines) - d
      /\ \A i \in DOMAIN batch : batch[i] = file.lines[i + d].text

\* C32: a round that goes from Good to Fail hands run_config_cmds one batch,
\* the stripped lines of the failure file in file order, the first line left
\* out exactly when it is "enable" and every later "enable" kept; a round
\* that goes from Fail to Good hands it in the same way the lines of the
\* recovery file; a round that stays in its state hands it nothing.
C32_BatchIsFileLessLeadingEnable ==
  ValidRound =>
    /\ EnteredFail =>
         /\ Len(last.submitted) = 1
         /\ IsBatchOf(last.submitted[1], seen.fail)
    /\ EnteredGood =>
         /\ Len(last.submitted) = 1
         /\ IsBatchOf(last.submitted[1], seen.recover)
    /\ ~EnteredFail /\ ~EnteredGood => last.submitted = <<>>

\* a round entered Fail with a failure file that has "enable", with blanks
\* around it, as its first line and "enable" again as its second: the batch
\* begins with the second
C32_LaterEnableSubmitted ==
  /\ EnteredFail
  /\ seen.fail.lines[1] = Line("  ", "enable", " \n")
  /\ last.submitted = << <<"enable", "interface Ethernet1">> >>

\* C33: ITERATION is never negative, and while HOLDUP and HOLDDOWN stay as
\* they were when the daemon started (set to a number from 0 up, or left to
\* the default), between any two handlers ITERATION is at most the HOLDUP
\* threshold when CURRENTSTATUS is 1 and at most the HOLDDOWN threshold when
\* CURRENTSTATUS is 0.
C33_CounterWithinThreshold ==
  /\ ITERATION >= 0
  /\ int(HOLDUPLOCAL(ver, opt)) >= 0 /\ int(HOLDDOWNLOCAL(ver, opt)) >= 0 =>
       /\ CURRENTSTATUS = 1 => ITERATION <= int(HOLDUPLOCAL(ver, opt))
       /\ CURRENTSTATUS = 0 => ITERATION <= int(HOLDDOWNLOCAL(ver, opt))

\* a round in Good has counted up to the HOLDUP threshold, the greatest
\* drawn, without passing it
C33_CountReachedHoldup ==
  /\ ValidRound
  /\ CURRENTSTATUS = 1
  /\ int(HOLDUPLOCAL(ver, opt)) = MaxHold
  /\ ITERATION = MaxHold
  /\ last.ITER = MaxHold - 1

\* ------------------------------------------------- addresses listed twice

\* the lists of IPv4Values and a list in which another address stands
\* between the two listings of one
IPv4Lists == IPv4Values \cup { <<"10.1.1.1", "10.1.2.1", "10.1.1.1">> }

\* the thresholds are what the operator configured before the start
NextDuplicates ==
  \/ on_initialized
  \/ \E v \in IPv4Lists : on_agent_option("IPv4", v)
  \/ \E env \in EnvsSound : \E pings \in PingsOf(env) : watched(env, pings)

SpecDuplicatesLegacy == InitOf("legacy") /\ [][NextDuplicates]_vars

\* the places of list at which an address stands for the first time
FirstPlaces(list) ==
  SelectSeq([i \in 1..Len(list) |-> i],
            LAMBDA i : \A j \in 1..(i - 1) : list[j] # list[i])

\* list with the later listings of every address removed, and what is left
\* of a sequence that goes with list place by place
WithoutDuplicates(list, seq) ==
  [k \in 1..Len(FirstPlaces(list)) |-> seq[FirstPlaces(list)[k]]]

\* every ping of the same address came to the same
AgreeingPings(list, pings) ==
  /\ Len(pings) = Len(list)
  /\ \A i, j \in DOMAIN list : list[i] = list[j] => pings[i] = pings[j]

\* C34: a valid round in which the pings of the same address agree leaves
\* GOODIPV4, DEADIPV4, CURRENTSTATUS, ITERATION and the Health Status, and
\* logs the host messages and makes the change_config call, exactly as the
\* same round would with every address listed once, at its first place.
C34_DuplicatesAreRedundant ==
  [][ last'.kind = "valid" /\ AgreeingPings(opt.IPv4, last'.pings) =>
        \E r \in { round(ver,
                         [opt EXCEPT !.IPv4 = WithoutDuplicates(opt.IPv4, opt.IPv4)],
                         CURRENTSTATUS, ITERATION, GOODIPV4, DEADIPV4,
                         SOURCEINTFADDR, HealthStatus, seen',
                         WithoutDuplicates(opt.IPv4, last'.pings)) } :
          /\ r.last.kind = "valid"
          /\ GOODIPV4' = r.f.GOODIPV4
          /\ DEADIPV4' = r.f.DEADIPV4
          /\ CURRENTSTATUS' = r.f.CURRENTSTATUS
          /\ ITERATION' = r.f.ITERATION
          /\ HealthStatus' = r.f.HealthStatus
          /\ last'.events = r.last.events
          /\ last'.calls = r.last.calls
    ]_vars

\* a round pinged 10.1.1.1 at the first and the third place of the list and
\* found it down both times, logged it down once and listed it once
C34_DownTwiceLoggedOnce ==
  /\ ValidRound
  /\ opt.IPv4 = <<"10.1.1.1", "10.1.2.1", "10.1.1.1">>
  /\ last.pings = <<FALSE, TRUE, FALSE>>
  /\ last.events = << <<"10.1.1.1", "is down">> >>
  /\ DEADIPV4 = <<"10.1.1.1">>
  /\ GOODIPV4 = <<"10.1.2.1">>

\* ------------------------------------------------- the two versions

\* Rounds in which every collaborator keeps its contract, the thresholds as
\* the operator configured them before the start, with the environment of
\* the round on record.
NextSound ==
  \/ on_initialized
  \/ \E v \in IPv4Values : on_agent_option("IPv4", v)
  \/ \E env \in EnvsSound : \E pings \in PingsOf(env) : watched(env, pings)

SpecSound == Init /\ [][NextSound]_vars

OtherVersion(v) == IF v = "legacy" THEN "main" ELSE "legacy"

\* SOURCEINTFADDR of the other version after the same rounds: the attribute
\* of the legacy agent is None for as long as the global of src/PingCheck.py
\* has not been assigned, and both are assigned by check_interface
Counterpart(sia) ==
  IF sia = None THEN Undefined
  ELSE IF sia = Undefined THEN None
  ELSE sia

\* both versions accept the configuration of the round
BothAccept(IPv4, env, sia) ==
  /\ check_vars_legacy(IPv4, env, IF sia = Undefined THEN None ELSE sia).ret = 1
  /\ check_vars_main(IPv4, env, IF sia = None THEN Undefined ELSE sia).ret = 1

\* the ping results fed to a round: those it used if it got to use them
PingsFed(r, IPv4) == IF r.kind = "valid" THEN {r.pings} ELSE PingResults(IPv4)

\* C35: with HOLDUP and HOLDDOWN both set, every round of one version that
\* both versions accept leaves CURRENTSTATUS, ITERATION and GOODIPV4 as, and
\* makes the change_config call that, the round of the other version makes
\* from the same state on the same ping results.
C35_VersionsAgree ==
  [][ /\ last'.kind \in {"valid", "raised"}
      /\ IsSet(opt.HOLDUP) /\ IsSet(opt.HOLDDOWN)
      /\ BothAccept(opt.IPv4, seen', SOURCEINTFADDR)
      =>
      \A pings \in PingsFed(last', opt.IPv4) :
        \E r \in { round(OtherVersion(ver), opt, CURRENTSTATUS, ITERATION,
                         GOODIPV4, DEADIPV4, Counterpart(SOURCEINTFADDR),
                         HealthStatus, seen', pings) } :
          /\ CURRENTSTATUS' = r.f.CURRENTSTATUS
          /\ ITERATION' = r.f.ITERATION
          /\ GOODIPV4' = r.f.GOODIPV4
          /\ last'.calls = r.last.calls
    ]_vars

\* the same for the rounds in which both versions come to ping: there the
\* two agree, and on the source address they keep as well
C35_PingedRoundsAgree ==
  [][ /\ last'.kind = "valid"
      /\ IsSet(opt.HOLDUP) /\ IsSet(opt.HOLDDOWN)
      /\ BothAccept(opt.IPv4, seen', SOURCEINTFADDR)
      =>
      \E r \in { round(OtherVersion(ver), opt, CURRENTSTATUS, ITERATION,
                       GOODIPV4, DEADIPV4, Counterpart(SOURCEINTFADDR),
                       HealthStatus, seen', last'.pings) } :
        r.last.kind = "valid" =>
          /\ CURRENTSTATUS' = r.f.CURRENTSTATUS
          /\ ITERATION' = r.f.ITERATION
          /\ GOODIPV4' = r.f.GOODIPV4
          /\ DEADIPV4' = r.f.DEADIPV4
          /\ HealthStatus' = r.f.HealthStatus
          /\ last'.calls = r.last.calls
          /\ last'.events = r.last.events
          /\ SOURCEINTFADDR' = r.f.SOURCEINTFADDR
    ]_vars

============================================================================
